---- MODULE Spec2Model ----
(***************************************************************************)
(* Ledger handlers of src/app.js: POST /jobs/:job_id/pay and               *)
(* POST /balances/deposit/:userId, run as concurrent requests against one  *)
(* relational store.  Every `await` of a handler is a point at which       *)
(* another request may run; a step of the model is the store operation     *)
(* awaited there together with the synchronous code that follows it.       *)
(* Requests carry no identity: the requests issued so far are a bag of     *)
(* records.  Amounts are integers (currency units).                        *)
(***************************************************************************)
EXTENDS Integers, Sequences, FiniteSets, Bags, TLC

\* ------------------------------------------------------------------ bounds
NumReqs == 2      \* requests issued in one behaviour
MaxTime == 2      \* largest clock value new Date() can return
MaxAmount == 1    \* largest `amount` a deposit request carries
NumQueries == 1   \* read requests issued in one behaviour of SpecQueries
MaxLimit == 2     \* largest numeric `limit` a best-clients request carries

\* --------------------------------------------------------------- seed data
NoDate == 0       \* paymentDate of a row that has none (NULL)
MissingId == 9    \* an id no row has

ProfileIds == {1, 2, 3, 4}
JobIds == {1, 2, 3, 4, 5}

\* Contract rows; no handler writes the table.
Contracts ==
  (1 :> [ClientId |-> 1, ContractorId |-> 3, status |-> "in_progress"]) @@
  (2 :> [ClientId |-> 2, ContractorId |-> 7, status |-> "in_progress"]) @@
  (3 :> [ClientId |-> 2, ContractorId |-> 4, status |-> "terminated"])

InitProfiles ==
  (1 :> [type |-> "client", balance |-> 5, profession |-> "A"]) @@
  (2 :> [type |-> "client", balance |-> 2, profession |-> "B"]) @@
  (3 :> [type |-> "contractor", balance |-> 0, profession |-> "A"]) @@
  (4 :> [type |-> "contractor", balance |-> 0, profession |-> "B"])

InitJobs ==
  (1 :> [ContractId |-> 1, price |-> 4, paid |-> FALSE, paymentDate |-> NoDate]) @@
  (2 :> [ContractId |-> 3, price |-> 2, paid |-> FALSE, paymentDate |-> NoDate]) @@
  (3 :> [ContractId |-> 2, price |-> 3, paid |-> FALSE, paymentDate |-> NoDate]) @@
  (4 :> [ContractId |-> 8, price |-> 1, paid |-> FALSE, paymentDate |-> NoDate]) @@
  (5 :> [ContractId |-> 1, price |-> 1, paid |-> TRUE, paymentDate |-> 1])

VARIABLES
  profiles,   \* Profile table: id -> [type, balance, profession]
  jobs,       \* Job table: id -> [ContractId, price, paid, paymentDate]
  now,        \* the clock read by new Date()
  reqs,       \* bag of requests: parameters, position, rows read, open
              \* transaction, response
  ledger      \* history: per profile, initial balance + deposits + credits - debits

vars == <<profiles, jobs, now, reqs, ledger>>

\* ------------------------------------------------------------ query results
NoJob == [found |-> FALSE, ContractId |-> 0, price |-> 0, paid |-> FALSE]
NoContract == [found |-> FALSE, ContractorId |-> 0]
NoProfile == [found |-> FALSE, id |-> 0, balance |-> 0]

\* Job.findOne({ where: { id: jobId } })
FindJob(jobId) ==
  IF jobId \in DOMAIN jobs
    THEN [found |-> TRUE, ContractId |-> jobs[jobId].ContractId,
          price |-> jobs[jobId].price, paid |-> jobs[jobId].paid]
    ELSE NoJob

\* Contract.findOne({ where: { id: job.ContractId } })
FindContract(id) ==
  IF id \in DOMAIN Contracts
    THEN [found |-> TRUE, ContractorId |-> Contracts[id].ContractorId]
    ELSE NoContract

\* Profile.findOne({ where: { id, type } })
FindProfile(id, type) ==
  IF id \in DOMAIN profiles /\ profiles[id].type = type
    THEN [found |-> TRUE, id |-> id, balance |-> profiles[id].balance]
    ELSE NoProfile

\* ----------------------------------------------------------------- requests
\* A request on arrival.  txn: the writes made under its transaction, not
\* committed.  issued, applied: history (the updates it has issued; those of
\* its settlement writes that are in the store).
NewReq ==
  [kind |-> "none", pc |-> "new", jobId |-> 0, clientId |-> 0, amount |-> 0,
   job |-> NoJob, contract |-> NoContract, client |-> NoProfile,
   contractor |-> NoProfile, txn |-> <<>>, issued |-> 0, applied |-> {},
   status |-> 0, result |-> "", newBalance |-> 0]

Init ==
  /\ profiles = InitProfiles
  /\ jobs = InitJobs
  /\ now = 1
  /\ reqs = EmptyBag
  /\ ledger = [p \in ProfileIds |-> InitProfiles[p].balance]

InFlight == {rec \in BagToSet(reqs) : rec.pc # "done"}

CanStart == BagCardinality(reqs) < NumReqs

\* The bag with one more request.
Arrive(rec) == reqs (+) SetToBag({rec})

\* The bag with one request old moved on to new.
Replace(old, new) == (reqs (-) SetToBag({old})) (+) SetToBag({new})

\* res.status(status).json(...)
Response(rec, status, result) ==
  [rec EXCEPT !.pc = "done", !.status = status, !.result = result]

\* The request as the catch block leaves it: the rows read inside the try
\* block are out of scope and the transaction is rolled back.
Caught(rec) ==
  [NewReq EXCEPT !.kind = rec.kind, !.jobId = rec.jobId, !.clientId = rec.clientId,
                 !.amount = rec.amount, !.issued = rec.issued,
                 !.applied = rec.applied]

\* ------------------------------------------------------------ store writes
\* One write of instance.update: the row and the values it sets.
Write(op, id, balance, paymentDate) ==
  [op |-> op, id |-> id, balance |-> balance, paymentDate |-> paymentDate]

IsLastWrite(ws, i, ops, id) ==
  /\ ws[i].op \in ops
  /\ ws[i].id = id
  /\ \A k \in (i + 1)..Len(ws) : ~(ws[k].op \in ops /\ ws[k].id = id)

\* The Profile table after the writes ws: UPDATE ... SET balance = ? WHERE id = ?
ProfilesAfter(ws) ==
  [p \in DOMAIN profiles |->
     IF \E i \in 1..Len(ws) : IsLastWrite(ws, i, {"client", "contractor"}, p)
       THEN LET i == CHOOSE k \in 1..Len(ws) :
                       IsLastWrite(ws, k, {"client", "contractor"}, p)
            IN [profiles[p] EXCEPT !.balance = ws[i].balance]
       ELSE profiles[p]]

\* The Job table after the writes ws: UPDATE ... SET paid = ?, paymentDate = ?
JobsAfter(ws) ==
  [j \in DOMAIN jobs |->
     IF \E i \in 1..Len(ws) : IsLastWrite(ws, i, {"job"}, j)
       THEN LET i == CHOOSE k \in 1..Len(ws) : IsLastWrite(ws, k, {"job"}, j)
            IN [jobs[j] EXCEPT !.paid = TRUE, !.paymentDate = ws[i].paymentDate]
       ELSE jobs[j]]

\* instance.update(values) without the transaction option: the write reaches
\* the store at once, whatever becomes of the transaction.
InstanceUpdateNoTxn(rec, next, w) ==
  /\ profiles' = ProfilesAfter(<<w>>)
  /\ jobs' = JobsAfter(<<w>>)
  /\ reqs' = Replace(rec, [next EXCEPT !.applied = @ \cup {w.op}])

\* instance.update(values, { transaction: t }) by request rec, which goes on
\* as next: the write is held by the transaction and reaches the store when
\* the transaction commits.
InstanceUpdate(rec, next, w) ==
  /\ reqs' = Replace(rec, [next EXCEPT !.txn = Append(@, w)])
  /\ UNCHANGED <<profiles, jobs>>

\* -------------------------------------------------- POST /jobs/:job_id/pay
\* The checks on the two profile rows, the contractor tested before the funds.
ProfileChecksContractorFirst(client, contractor, job) ==
  IF ~client.found THEN "Client not found"
  ELSE IF ~contractor.found THEN "Contractor not found"
  ELSE IF client.balance < job.price THEN "Insufficient funds"
  ELSE "ok"

\* The checks on the two profile rows with the funds test left out.
ProfileChecksNoFunds(client, contractor, job) ==
  IF ~client.found THEN "Client not found"
  ELSE IF ~contractor.found THEN "Contractor not found"
  ELSE "ok"

\* The checks made once both profile rows are read.
ProfileChecks(client, contractor, job) ==
  IF ~client.found THEN "Client not found"
  ELSE IF client.balance < job.price THEN "Insufficient funds"
  ELSE IF ~contractor.found THEN "Contractor not found"
  ELSE "ok"

ErrorStatus(result) ==
  IF result \in {"Job not found", "Contract not found", "Client not found",
                 "Contractor not found"}
    THEN 404 ELSE 400

\* The request arrives; Job.findOne resolves; the job checks run.
PayFindJob ==
  \E jobId \in JobIds \cup {MissingId}, clientId \in ProfileIds :
    LET job == FindJob(jobId)
        rec == [NewReq EXCEPT !.kind = "pay", !.jobId = jobId,
                              !.clientId = clientId, !.job = job]
    IN /\ CanStart
       /\ reqs' = Arrive(IF ~job.found THEN Response(rec, 404, "Job not found")
                         ELSE IF job.paid
                           THEN Response(rec, 400, "Job is already paid")
                         ELSE [rec EXCEPT !.pc = "findContract"])
       /\ UNCHANGED <<profiles, jobs, now, ledger>>

\* Contract.findOne resolves; the contract check runs.
PayFindContract(rec) ==
  LET contract == FindContract(rec.job.ContractId)
      next == [rec EXCEPT !.contract = contract]
  IN /\ rec.kind = "pay"
     /\ rec.pc = "findContract"
     /\ reqs' = Replace(rec, IF ~contract.found
                               THEN Response(next, 404, "Contract not found")
                               ELSE [next EXCEPT !.pc = "findClient"])
     /\ UNCHANGED <<profiles, jobs, now, ledger>>

\* A variant that looks up the payer of the job's contract instead of the
\* caller.
PayFindClientOfContract(rec) ==
  /\ rec.kind = "pay"
  /\ rec.pc = "findClient"
  /\ reqs' = Replace(rec, [rec EXCEPT !.client = FindProfile(Contracts[rec.job.ContractId].ClientId, "client"),
                                      !.pc = "findContractor"])
  /\ UNCHANGED <<profiles, jobs, now, ledger>>

\* Profile.findOne for the client resolves.
PayFindClient(rec) ==
  /\ rec.kind = "pay"
  /\ rec.pc = "findClient"
  /\ reqs' = Replace(rec, [rec EXCEPT !.client = FindProfile(rec.clientId, "client"),
                                      !.pc = "findContractor"])
  /\ UNCHANGED <<profiles, jobs, now, ledger>>

\* A variant that marks the job paid before the profile checks are made.
PayFindContractorMarkFirst(rec) ==
  LET contractor == FindProfile(rec.contract.ContractorId, "contractor")
      next == [rec EXCEPT !.contractor = contractor]
      outcome == ProfileChecks(next.client, contractor, next.job)
  IN /\ rec.kind = "pay"
     /\ rec.pc = "findContractor"
     /\ jobs' = JobsAfter(<<Write("job", rec.jobId, 0, now)>>)
     /\ reqs' = Replace(rec, IF outcome # "ok"
                               THEN Response(next, ErrorStatus(outcome), outcome)
                               ELSE [next EXCEPT !.pc = "updateClient"])
     /\ UNCHANGED <<profiles, now, ledger>>

\* Profile.findOne for the contractor resolves; the checks on the client, the
\* funds and the contractor run; the transaction is opened.
PayFindContractor(rec) ==
  LET contractor == FindProfile(rec.contract.ContractorId, "contractor")
      next == [rec EXCEPT !.contractor = contractor]
      outcome == ProfileChecks(next.client, contractor, next.job)
  IN /\ rec.kind = "pay"
     /\ rec.pc = "findContractor"
     /\ reqs' = Replace(rec, IF outcome # "ok"
                               THEN Response(next, ErrorStatus(outcome), outcome)
                               ELSE [next EXCEPT !.pc = "updateClient"])
     /\ UNCHANGED <<profiles, jobs, now, ledger>>

\* client.update({ balance: client.balance - job.price }, { transaction: t })
PayUpdateClient(rec) ==
  /\ rec.kind = "pay"
  /\ rec.pc = "updateClient"
  /\ InstanceUpdate(rec, [rec EXCEPT !.pc = "updateContractor", !.issued = 1],
                    Write("client", rec.client.id,
                          rec.client.balance - rec.job.price, NoDate))
  /\ UNCHANGED <<now, ledger>>

\* contractor.update({ balance: contractor.balance + job.price }, { transaction: t })
PayUpdateContractor(rec) ==
  /\ rec.kind = "pay"
  /\ rec.pc = "updateContractor"
  /\ InstanceUpdate(rec, [rec EXCEPT !.pc = "updateJob", !.issued = 2],
                    Write("contractor", rec.contractor.id,
                          rec.contractor.balance + rec.job.price, NoDate))
  /\ UNCHANGED <<now, ledger>>

\* The values job.update sets, with the date left out.
JobPaidValuesNoDate(t) == [paid |-> TRUE, paymentDate |-> NoDate]

\* { paid: true, paymentDate: new Date() }
JobPaidValues(t) == [paid |-> TRUE, paymentDate |-> t]

\* job.update({ paid: true, paymentDate: new Date() }, { transaction: t });
\* new Date() returns the clock, which never runs backwards.
PayUpdateJob(rec) ==
  \E t \in now..MaxTime :
    /\ rec.kind = "pay"
    /\ rec.pc = "updateJob"
    /\ now' = t
    /\ InstanceUpdate(rec, [rec EXCEPT !.pc = "commit", !.issued = 3],
                      Write("job", rec.jobId, 0, JobPaidValues(t).paymentDate))
    /\ UNCHANGED ledger

\* The transaction callback returned: COMMIT, then res.json of the success.
PayCommit(rec) ==
  /\ rec.kind = "pay"
  /\ rec.pc = "commit"
  /\ profiles' = ProfilesAfter(rec.txn)
  /\ jobs' = JobsAfter(rec.txn)
  /\ ledger' = [ledger EXCEPT ![rec.client.id] = @ - rec.job.price,
                              ![rec.contractor.id] = @ + rec.job.price]
  /\ reqs' = Replace(rec,
       Response([rec EXCEPT !.txn = <<>>,
                            !.applied = @ \cup {rec.txn[i].op : i \in 1..Len(rec.txn)}],
                200, "Payment successful"))
  /\ UNCHANGED now

\* An awaited store operation rejects: the transaction, if open, is rolled
\* back and the catch block answers 500.
PayStoreFailure(rec) ==
  /\ rec.kind = "pay"
  /\ rec.pc \in {"findContract", "findClient", "findContractor",
                 "updateClient", "updateContractor", "updateJob", "commit"}
  /\ reqs' = Replace(rec, Response(Caught(rec), 500,
                                   "An error occurred while processing the payment"))
  /\ UNCHANGED <<profiles, jobs, now, ledger>>

\* ------------------------------------------ POST /balances/deposit/:userId
RECURSIVE SumPrice(_)
\* SUM(price) over a set of job ids; no row gives 0.
SumPrice(S) ==
  IF S = {} THEN 0
  ELSE LET j == CHOOSE x \in S : TRUE
       IN jobs[j].price + SumPrice(S \ {j})

\* The sum over the unpaid jobs of all contracts whose ClientId is userId,
\* whatever their status.
UnpaidJobsTotalAnyStatus(userId) ==
  SumPrice({j \in DOMAIN jobs :
              /\ ~jobs[j].paid
              /\ jobs[j].ContractId \in DOMAIN Contracts
              /\ Contracts[jobs[j].ContractId].ClientId = userId})

\* Job.sum("price") over the unpaid jobs joined to the in_progress contracts
\* whose ClientId is userId.
UnpaidJobsTotal(userId) ==
  SumPrice({j \in DOMAIN jobs :
              /\ ~jobs[j].paid
              /\ jobs[j].ContractId \in DOMAIN Contracts
              /\ Contracts[jobs[j].ContractId].ClientId = userId
              /\ Contracts[jobs[j].ContractId].status = "in_progress"})

\* amount > unpaidJobsTotal * 0.25
ExceedsMaxDeposit(amount, unpaidJobsTotal) == 4 * amount > unpaidJobsTotal

\* A variant that looks the client up before it validates the amount.
DepositFindClientLookupFirst ==
  \E userId \in ProfileIds \cup {MissingId}, amount \in 0..MaxAmount :
    LET client == FindProfile(userId, "client")
        rec == [NewReq EXCEPT !.kind = "deposit", !.clientId = userId,
                              !.amount = amount]
    IN /\ CanStart
       /\ reqs' = Arrive(IF ~client.found
                           THEN Response([rec EXCEPT !.client = client], 404,
                                         "Client not found")
                         ELSE IF amount <= 0
                           THEN Response(rec, 400, "Invalid request")
                         ELSE [rec EXCEPT !.client = client, !.pc = "sumJobs"])
       /\ UNCHANGED <<profiles, jobs, now, ledger>>

\* The request arrives; amount is validated; Profile.findOne resolves.
DepositFindClient ==
  \E userId \in ProfileIds \cup {MissingId}, amount \in 0..MaxAmount :
    LET client == FindProfile(userId, "client")
        rec == [NewReq EXCEPT !.kind = "deposit", !.clientId = userId,
                              !.amount = amount]
    IN /\ CanStart
       /\ reqs' = Arrive(IF amount <= 0 THEN Response(rec, 400, "Invalid request")
                         ELSE IF ~client.found
                           THEN Response([rec EXCEPT !.client = client], 404,
                                         "Client not found")
                         ELSE [rec EXCEPT !.client = client, !.pc = "sumJobs"])
       /\ UNCHANGED <<profiles, jobs, now, ledger>>

RECURSIVE SumAmount(_)
\* The summed amount of the requests in S, each counted as often as it is in
\* the bag.
SumAmount(S) ==
  IF S = {} THEN 0
  ELSE LET rec == CHOOSE x \in S : TRUE
       IN rec.amount * CopiesIn(rec, reqs) + SumAmount(S \ {rec})

\* The total of the deposits to userId answered with success so far.
DepositedBy(userId) ==
  SumAmount({rec \in BagToSet(reqs) :
               /\ rec.kind = "deposit" /\ rec.pc = "done" /\ rec.status = 200
               /\ rec.clientId = userId})

\* A variant whose limit bounds the total deposited, not the single amount.
DepositSumJobsCumulative(rec) ==
  /\ rec.kind = "deposit"
  /\ rec.pc = "sumJobs"
  /\ reqs' = Replace(rec,
       IF ExceedsMaxDeposit(rec.amount + DepositedBy(rec.clientId),
                            UnpaidJobsTotal(rec.clientId))
         THEN Response(rec, 400, "Deposit exceeds the maximum allowed limit")
         ELSE [rec EXCEPT !.pc = "updateBalance"])
  /\ UNCHANGED <<profiles, jobs, now, ledger>>

\* Job.sum resolves; the amount is compared with the limit.
DepositSumJobs(rec) ==
  /\ rec.kind = "deposit"
  /\ rec.pc = "sumJobs"
  /\ reqs' = Replace(rec,
       IF ExceedsMaxDeposit(rec.amount, UnpaidJobsTotal(rec.clientId))
         THEN Response(rec, 400, "Deposit exceeds the maximum allowed limit")
         ELSE [rec EXCEPT !.pc = "updateBalance"])
  /\ UNCHANGED <<profiles, jobs, now, ledger>>

\* client.update({ balance: client.balance + amount }) resolves; res.json.
DepositUpdate(rec) ==
  LET newBalance == rec.client.balance + rec.amount
  IN /\ rec.kind = "deposit"
     /\ rec.pc = "updateBalance"
     /\ profiles' = ProfilesAfter(<<Write("client", rec.client.id, newBalance, NoDate)>>)
     /\ ledger' = [ledger EXCEPT ![rec.client.id] = @ + rec.amount]
     /\ reqs' = Replace(rec, Response([rec EXCEPT !.newBalance = newBalance,
                                                  !.issued = 1],
                                      200, "Deposit successful"))
     /\ UNCHANGED <<jobs, now>>

\* An awaited store operation rejects: the catch block answers 500.
DepositStoreFailure(rec) ==
  /\ rec.kind = "deposit"
  /\ rec.pc \in {"sumJobs", "updateBalance"}
  /\ reqs' = Replace(rec, Response(Caught(rec), 500,
                                   "An error occurred while processing the deposit"))
  /\ UNCHANGED <<profiles, jobs, now, ledger>>

\* ------------------------------------------------------------ specification
Next ==
  \/ PayFindJob
  \/ DepositFindClient
  \/ \E rec \in InFlight : PayFindContract(rec)
  \/ \E rec \in InFlight : PayFindClient(rec)
  \/ \E rec \in InFlight : PayFindContractor(rec)
  \/ \E rec \in InFlight : PayUpdateClient(rec)
  \/ \E rec \in InFlight : PayUpdateContractor(rec)
  \/ \E rec \in InFlight : PayUpdateJob(rec)
  \/ \E rec \in InFlight : PayCommit(rec)
  \/ \E rec \in InFlight : PayStoreFailure(rec)
  \/ \E rec \in InFlight : DepositSumJobs(rec)
  \/ \E rec \in InFlight : DepositUpdate(rec)
  \/ \E rec \in InFlight : DepositStoreFailure(rec)

Spec == Init /\ [][Next]_vars

\* ---------------------------------------------------------------- properties
Done == {rec \in BagToSet(reqs) : rec.pc = "done"}

PaySucceeded(rec) == rec.kind = "pay" /\ rec.pc = "done" /\ rec.status = 200

\* The number of requests that settled job j and were answered with success.
SuccessfulSettlements(j) ==
  LET S == {rec \in BagToSet(reqs) : PaySucceeded(rec) /\ rec.jobId = j}
  IN BagCardinality([rec \in S |-> CopiesIn(rec, reqs)])

\* This step is request old moving on to new.
Steps(old, new) == old \in InFlight /\ reqs' = Replace(old, new)

\* This step answers a request with the response record new.
Answers(new) ==
  /\ new.pc = "done"
  /\ \/ reqs' = Arrive(new)
     \/ \E old \in InFlight : reqs' = Replace(old, new)

SettlementWrites == {"client", "contractor", "job"}

\* C1: for every job, at most one pay request is answered with success,
\* whatever the interleaving of the requests.
C1_SingleSettlement == \A j \in JobIds : SuccessfulSettlements(j) <= 1

\* C2: every profile's stored balance equals its initial balance plus its
\* successful deposits plus the prices credited to it minus the prices debited
\* from it by successful settlements.
C2_NoLostUpdate == \A p \in ProfileIds : profiles[p].balance = ledger[p]

\* C3: the step that commits a successful settlement leaves the sum of the
\* stored balances of its payer and its performer unchanged.
C3_Conservation ==
  [][\A old \in BagToSet(reqs), new \in BagToSet(reqs') :
       (Steps(old, new) /\ PaySucceeded(new)) =>
          profiles'[old.client.id].balance + profiles'[old.contractor.id].balance
            = profiles[old.client.id].balance + profiles[old.contractor.id].balance]_vars

\* C4: in every reachable state every profile's balance is >= 0.
C4_NonNegativeBalance == \A p \in ProfileIds : profiles[p].balance >= 0

\* C4 witness: one client has settled two different jobs whose prices together
\* exceed its initial balance.
C4_Witness ==
  \E a, b \in Done :
    /\ PaySucceeded(a) /\ PaySucceeded(b)
    /\ a.clientId = b.clientId /\ a.jobId # b.jobId
    /\ a.job.price + b.job.price > InitProfiles[a.clientId].balance

\* C5: in every state the store holds either none of a settlement's three
\* writes or all of them, and all of them exactly when the settlement was
\* answered with success.
C5_SettlementAtomic ==
  \A rec \in BagToSet(reqs) :
    rec.kind = "pay" =>
      rec.applied = (IF PaySucceeded(rec) THEN SettlementWrites ELSE {})

\* C5 witness: a settlement has issued its debit but has not committed, while
\* another request is about to read the store.
C5_Witness ==
  \E a, b \in InFlight :
    /\ a.kind = "pay" /\ a.pc \in {"updateContractor", "updateJob"}
    /\ Len(a.txn) >= 1
    /\ b.pc \in {"findClient", "findContractor", "sumJobs"}

\* C6: a settlement that ends without success after issuing at least one of
\* its writes is answered 500, the step that ends it changes no stored row,
\* and none of its writes is in the store.
C6_RollbackOnFailure ==
  [][\A old \in BagToSet(reqs), new \in BagToSet(reqs') :
       (/\ Steps(old, new)
        /\ old.kind = "pay" /\ old.issued >= 1
        /\ new.pc = "done" /\ ~PaySucceeded(new)) =>
          /\ new.status = 500
          /\ new.applied = {}
          /\ profiles' = profiles
          /\ jobs' = jobs]_vars

\* C6 witness: a settlement failed after its debit and credit were issued.
C6_Witness ==
  \E rec \in Done : rec.kind = "pay" /\ rec.status = 500 /\ rec.issued >= 2

\* The first violated precondition in the order job, unpaid, contract, payer,
\* performer, funds.
FirstViolatedPerformerFirst(rec) ==
  IF ~rec.job.found THEN "Job not found"
  ELSE IF rec.job.paid THEN "Job is already paid"
  ELSE IF ~rec.contract.found THEN "Contract not found"
  ELSE IF ~rec.client.found THEN "Client not found"
  ELSE IF ~rec.contractor.found THEN "Contractor not found"
  ELSE IF ~(rec.client.balance >= rec.job.price) THEN "Insufficient funds"
  ELSE "Payment successful"

\* The first violated precondition in the order job, unpaid, contract, payer,
\* funds, performer.
FirstViolatedFundsFirst(rec) ==
  IF ~rec.job.found THEN "Job not found"
  ELSE IF rec.job.paid THEN "Job is already paid"
  ELSE IF ~rec.contract.found THEN "Contract not found"
  ELSE IF ~rec.client.found THEN "Client not found"
  ELSE IF ~(rec.client.balance >= rec.job.price) THEN "Insufficient funds"
  ELSE IF ~rec.contractor.found THEN "Contractor not found"
  ELSE "Payment successful"

\* C7 as stated: a pay request not ended by a store failure reports the first
\* violated precondition in the order job, unpaid, contract, payer, performer,
\* funds.
C7_OrderPerformerFirst ==
  \A rec \in Done :
    (rec.kind = "pay" /\ rec.status # 500) =>
      rec.result = FirstViolatedPerformerFirst(rec)

\* C7 amended: a pay request not ended by a store failure reports the first
\* violated precondition in the order job, unpaid, contract, payer, funds,
\* performer.
C7_OrderFundsFirst ==
  \A rec \in Done :
    (rec.kind = "pay" /\ rec.status # 500) =>
      rec.result = FirstViolatedFundsFirst(rec)

\* C7 witness: the performer is missing and the payer's balance is below the
\* price; the answer is the funds failure.
C7_Witness ==
  \E rec \in Done :
    /\ rec.kind = "pay" /\ rec.client.found /\ ~rec.contractor.found
    /\ rec.client.balance < rec.job.price
    /\ rec.result = "Insufficient funds"

\* C8: the step that answers a pay request with a business-rule failure
\* (400 or 404) changes no balance and no job.
C8_FailureChangesNothing ==
  [][\A new \in BagToSet(reqs') :
       (Answers(new) /\ new.kind = "pay" /\ new.status \in {400, 404}) =>
          profiles' = profiles /\ jobs' = jobs]_vars

\* C8 witness: a pay request was refused for insufficient funds after another
\* settlement had moved the balances.
C8_Witness ==
  \E a, b \in Done :
    /\ a.kind = "pay" /\ a.result = "Insufficient funds"
    /\ a.client.balance < a.job.price /\ a.contractor.found
    /\ PaySucceeded(b)

\* C9: for every job, paymentDate is non-null if and only if paid is true.
C9_PaymentDateIffPaid ==
  \A j \in JobIds : (jobs[j].paymentDate # NoDate) <=> jobs[j].paid

\* C9 witness: a job unpaid at the start has been settled.
C9_Witness == \E j \in JobIds : jobs[j].paid /\ ~InitJobs[j].paid

\* C10: once a job is paid, every step leaves it paid and leaves its
\* paymentDate as it was.
C10_PaidStable ==
  [][\A j \in JobIds :
       jobs[j].paid => (jobs'[j].paid /\ jobs'[j].paymentDate = jobs[j].paymentDate)]_vars

\* The jobs the deposit cap of payer p counts: unpaid, under a contract of
\* status in_progress whose payer is p.
CapJobs(p) ==
  {j \in JobIds :
     /\ jobs[j].paid = FALSE
     /\ \E c \in DOMAIN Contracts :
          /\ jobs[j].ContractId = c
          /\ Contracts[c].status = "in_progress"
          /\ Contracts[c].ClientId = p}

DepositLimitExceeded == "Deposit exceeds the maximum allowed limit"

\* C11: when Job.sum resolves, a deposit whose amount is at most 25% of the
\* summed price of the payer's cap jobs goes on to its update and then ends
\* with success unless the store fails; a larger amount is answered
\* DepositLimitExceeded and no balance changes.
C11_DepositCap ==
  [][\A old \in BagToSet(reqs), new \in BagToSet(reqs') :
       (Steps(old, new) /\ old.kind = "deposit" /\ new.status # 500) =>
          /\ old.pc = "sumJobs" =>
               IF 4 * old.amount <= SumPrice(CapJobs(old.clientId))
                 THEN new.pc = "updateBalance"
                 ELSE /\ new.pc = "done" /\ new.status = 400
                      /\ new.result = DepositLimitExceeded
                      /\ profiles' = profiles
          /\ old.pc = "updateBalance" => (new.pc = "done" /\ new.status = 200)]_vars

\* C11 witness: with no job settled, one deposit of exactly 25% of the total
\* succeeded and one deposit above its payer's cap was refused.
C11_Witness ==
  /\ jobs = InitJobs
  /\ \E a, b \in Done :
       /\ a.kind = "deposit" /\ a.status = 200
       /\ 4 * a.amount = SumPrice(CapJobs(a.clientId))
       /\ b.kind = "deposit" /\ b.result = DepositLimitExceeded
       /\ 4 * b.amount > SumPrice(CapJobs(b.clientId))

\* C12: the step that answers a deposit with success raises that payer's
\* stored balance by exactly the amount, returns the balance now stored, and
\* changes no other profile and no job.
C12_DepositEffect ==
  [][\A old \in BagToSet(reqs), new \in BagToSet(reqs') :
       (Steps(old, new) /\ old.kind = "deposit" /\ new.status = 200) =>
          /\ profiles'[old.clientId].balance
               = profiles[old.clientId].balance + old.amount
          /\ new.newBalance = profiles'[old.clientId].balance
          /\ \A q \in ProfileIds \ {old.clientId} : profiles'[q] = profiles[q]
          /\ jobs' = jobs]_vars

\* A profile of role payer with this id exists.
IsPayer(id) == id \in ProfileIds /\ profiles[id].type = "client"

\* C13: an arriving deposit with amount <= 0 is answered InvalidAmount, also
\* when no payer has the id; one with amount > 0 and an id that is no payer's
\* (a performer's id included) is answered NotFound(payer); neither changes
\* any state.
C13_DepositRejects ==
  [][\A new \in BagToSet(reqs') :
       (reqs' = Arrive(new) /\ new.kind = "deposit") =>
          /\ new.amount <= 0 =>
               /\ new.pc = "done" /\ new.status = 400
               /\ new.result = "Invalid request"
               /\ UNCHANGED <<profiles, jobs>>
          /\ (new.amount > 0 /\ ~IsPayer(new.clientId)) =>
               /\ new.pc = "done" /\ new.status = 404
               /\ new.result = "Client not found"
               /\ UNCHANGED <<profiles, jobs>>]_vars

\* C13 witness: a deposit of 0 for an id without profile was answered
\* InvalidAmount, and a positive deposit for a performer's id NotFound(payer).
C13_Witness ==
  \E a, b \in Done :
    /\ a.kind = "deposit" /\ a.amount = 0 /\ a.clientId = MissingId
    /\ a.result = "Invalid request"
    /\ b.kind = "deposit" /\ b.amount > 0 /\ b.clientId \in ProfileIds
    /\ profiles[b.clientId].type = "contractor"
    /\ b.result = "Client not found"

\* ------------------------------------------------------------ read handlers
(***************************************************************************)
(* GET /contracts/:id, GET /contracts, GET /admin/best-profession and      *)
(* GET /admin/best-clients.  Each awaits one query and answers, so each is *)
(* one step.  SpecQueries runs them against every Job table the pay        *)
(* handler can leave behind; the store answers every query it accepts.     *)
(***************************************************************************)
\* A job the pay handler can settle: its contract and its contractor exist.
Payable(j) ==
  /\ InitJobs[j].ContractId \in DOMAIN Contracts
  /\ Contracts[InitJobs[j].ContractId].ContractorId \in ProfileIds
  /\ InitProfiles[Contracts[InitJobs[j].ContractId].ContractorId].type = "contractor"

\* The rows job j can hold: its seed row, or that row paid at some date.
JobRows(j) ==
  IF InitJobs[j].paid \/ ~Payable(j) THEN {InitJobs[j]}
  ELSE {InitJobs[j]} \cup
       {[InitJobs[j] EXCEPT !.paid = TRUE, !.paymentDate = d] : d \in 1..MaxTime}

JobTables ==
  {t \in [JobIds -> UNION {JobRows(j) : j \in JobIds}] :
     \A j \in JobIds : t[j] \in JobRows(j)}

\* A read request on arrival.  limit: the query parameter as sent.
\* contracts, professions, clients: the rows of the response.
NoLimit == [kind |-> "absent", value |-> 0]

NewQuery ==
  [kind |-> "none", pc |-> "new", profileId |-> 0, contractId |-> 0,
   start |-> NoDate, end |-> NoDate, limit |-> NoLimit, queryLimit |-> 0,
   status |-> 0, result |-> "", contracts |-> {}, professions |-> <<>>,
   clients |-> <<>>]

InitQueries ==
  /\ profiles = InitProfiles
  /\ jobs \in JobTables
  /\ now = MaxTime
  /\ reqs = EmptyBag
  /\ ledger = [p \in ProfileIds |-> InitProfiles[p].balance]

CanQuery == BagCardinality(reqs) < NumQueries

\* A lookup that also accepts the contract's contractor.
FindContractOfParty(id, profileId) ==
  {c \in DOMAIN Contracts :
     c = id /\ (Contracts[c].ClientId = profileId
                  \/ Contracts[c].ContractorId = profileId)}

\* Contract.findOne({ where: { id, clientId: profileId } }), as a set of ids.
FindContractOfClient(id, profileId) ==
  {c \in DOMAIN Contracts : c = id /\ Contracts[c].ClientId = profileId}

\* GET /contracts/:id
GetContract ==
  \E id \in DOMAIN Contracts \cup {MissingId}, profileId \in ProfileIds :
    LET contract == FindContractOfClient(id, profileId)
        rec == [NewQuery EXCEPT !.kind = "contract", !.contractId = id,
                                !.profileId = profileId, !.contracts = contract]
    IN /\ CanQuery
       /\ reqs' = Arrive(IF contract = {} THEN Response(rec, 404, "")
                         ELSE Response(rec, 200, ""))
       /\ UNCHANGED <<profiles, jobs, now, ledger>>

\* The contracts of a profile whatever their status.
ActiveContractsAnyStatus(profileId) ==
  {c \in DOMAIN Contracts :
     Contracts[c].ClientId = profileId \/ Contracts[c].ContractorId = profileId}

\* Contract.findAll({ where: { [Op.or]: [{ ClientId }, { ContractorId }],
\* status: "in_progress" } })
ActiveContracts(profileId) ==
  {c \in DOMAIN Contracts :
     /\ Contracts[c].ClientId = profileId \/ Contracts[c].ContractorId = profileId
     /\ Contracts[c].status = "in_progress"}

\* GET /contracts
ListContracts ==
  \E profileId \in ProfileIds :
    LET activeContracts == ActiveContracts(profileId)
        rec == [NewQuery EXCEPT !.kind = "contracts", !.profileId = profileId]
    IN /\ CanQuery
       /\ reqs' = Arrive(IF Cardinality(activeContracts) = 0
                           THEN Response(rec, 404, "No active contracts found")
                           ELSE Response([rec EXCEPT !.contracts = activeContracts],
                                         200, ""))
       /\ UNCHANGED <<profiles, jobs, now, ledger>>

\* The paid jobs with start < paymentDate < end.
MatchingJobsExclusive(start, end) ==
  {j \in DOMAIN jobs :
     jobs[j].paid /\ start < jobs[j].paymentDate /\ jobs[j].paymentDate < end}

\* where: { paid: true, paymentDate: { [Op.between]: [start, end] } }
MatchingJobs(start, end) ==
  {j \in DOMAIN jobs :
     jobs[j].paid /\ start <= jobs[j].paymentDate /\ jobs[j].paymentDate <= end}

\* Job joined to its Contract and the Contract's Contractor of type
\* contractor.  Every paid job has one: the pay handler requires it.
HasContractor(j) ==
  /\ jobs[j].ContractId \in DOMAIN Contracts
  /\ FindProfile(Contracts[jobs[j].ContractId].ContractorId, "contractor").found

\* col('Contract.Contractor.profession')
ProfessionOf(j) == profiles[Contracts[jobs[j].ContractId].ContractorId].profession

\* The groups of best-profession: [fn('sum', col('price')), 'totalEarnings']
\* per profession.
ProfessionsEarnings(start, end) ==
  LET rows == {j \in MatchingJobs(start, end) : HasContractor(j)}
  IN {[profession |-> g,
       totalEarnings |-> SumPrice({j \in rows : ProfessionOf(j) = g})] :
        g \in {ProfessionOf(j) : j \in rows}}

\* GET /admin/best-profession; order by the sum DESC, limit 1: any group no
\* other group exceeds.
BestProfession ==
  \E start \in {NoDate} \cup (1..MaxTime), end \in {NoDate} \cup (1..MaxTime) :
    LET rec == [NewQuery EXCEPT !.kind = "profession", !.start = start, !.end = end]
        professionsEarnings == ProfessionsEarnings(start, end)
    IN /\ CanQuery
       /\ IF start = NoDate \/ end = NoDate
            THEN reqs' = Arrive(Response(rec, 400, "Start and end dates are required"))
          ELSE IF professionsEarnings = {}
            THEN reqs' = Arrive(Response(rec, 404,
                   "No professions found in the specified date range"))
          ELSE \E best \in professionsEarnings :
                 /\ \A g \in professionsEarnings :
                      g.totalEarnings <= best.totalEarnings
                 /\ reqs' = Arrive(Response([rec EXCEPT !.professions = <<best>>],
                                            200, ""))
       /\ UNCHANGED <<profiles, jobs, now, ledger>>

\* const { limit = 2 } = req.query
DefaultLimit == 2

\* parseInt(limit, 10): [nan, value].
ParseInt(limit) ==
  IF limit.kind = "text" THEN [nan |-> TRUE, value |-> 0]
  ELSE IF limit.kind = "absent" THEN [nan |-> FALSE, value |-> DefaultLimit]
  ELSE [nan |-> FALSE, value |-> limit.value]

\* A limit that falls back to the default for every value below 1.
QueryLimitPositive(limit) ==
  IF ParseInt(limit).nan \/ ParseInt(limit).value <= 0 THEN DefaultLimit
  ELSE ParseInt(limit).value

\* parseInt(limit, 10) || 2: NaN and 0 are falsy.
QueryLimit(limit) ==
  IF ParseInt(limit).nan \/ ParseInt(limit).value = 0 THEN DefaultLimit
  ELSE ParseInt(limit).value

\* The groups of best-clients: [fn('sum', col('price')), 'totalPaid'] per
\* Contract.ClientId; the Contract join is required.
ClientsPaid(start, end) ==
  LET rows == {j \in MatchingJobs(start, end) : jobs[j].ContractId \in DOMAIN Contracts}
  IN {[ClientId |-> g,
       totalPaid |-> SumPrice({j \in rows : Contracts[jobs[j].ContractId].ClientId = g})] :
        g \in {Contracts[jobs[j].ContractId].ClientId : j \in rows}}

\* The first n groups of G in some order of totalPaid DESC.
TopGroups(G, n) ==
  {s \in [1..n -> G] :
     /\ \A i, k \in 1..n : i < k => (s[i] # s[k] /\ s[i].totalPaid >= s[k].totalPaid)
     /\ \A g \in G \ {s[i] : i \in 1..n}, i \in 1..n : g.totalPaid <= s[i].totalPaid}

Min(a, b) == IF a <= b THEN a ELSE b

LimitInputs ==
  {NoLimit, [kind |-> "text", value |-> 0]} \cup
  {[kind |-> "number", value |-> v] : v \in (0 - 1)..MaxLimit}

\* GET /admin/best-clients.  A negative LIMIT is "no limit" to SQLite and an
\* error to the other dialects, which the catch block answers with 500.
BestClients ==
  \E start \in {NoDate} \cup (1..MaxTime), end \in {NoDate} \cup (1..MaxTime),
     limit \in LimitInputs :
    LET rec == [NewQuery EXCEPT !.kind = "clients", !.start = start, !.end = end,
                                !.limit = limit]
        queryLimit == QueryLimit(limit)
        groups == ClientsPaid(start, end)
        asked == [rec EXCEPT !.queryLimit = queryLimit]
    IN /\ CanQuery
       /\ IF start = NoDate \/ end = NoDate
            THEN reqs' = Arrive(Response(rec, 400, "Start and end dates are required"))
          ELSE IF queryLimit < 0
            THEN \/ \E bestClients \in TopGroups(groups, Cardinality(groups)) :
                      reqs' = Arrive(Response([asked EXCEPT !.clients = bestClients],
                                              200, ""))
                 \/ reqs' = Arrive(Response(asked, 500,
                        "An error occurred while fetching the best clients"))
          ELSE \E bestClients \in TopGroups(groups, Min(queryLimit, Cardinality(groups))) :
                 reqs' = Arrive(Response([asked EXCEPT !.clients = bestClients],
                                         200, ""))
       /\ UNCHANGED <<profiles, jobs, now, ledger>>

NextQueries ==
  \/ GetContract
  \/ ListContracts
  \/ BestProfession
  \/ BestClients

SpecQueries == InitQueries /\ [][NextQueries]_vars

\* ------------------------------------------------- properties of the reads
\* The contracts with status in_progress in which p is payer or performer.
InProgressOf(p) ==
  {c \in DOMAIN Contracts :
     /\ Contracts[c].status = "in_progress"
     /\ p \in {Contracts[c].ClientId, Contracts[c].ContractorId}}

\* C14 as stated: every listing succeeds and returns exactly the caller's
\* in_progress contracts, the empty list when there is none.
C14_ListOrEmpty ==
  \A rec \in Done :
    rec.kind = "contracts" =>
      (rec.status = 200 /\ rec.contracts = InProgressOf(rec.profileId))

\* C14 amended: a listing returns exactly the caller's in_progress contracts
\* when there is at least one, and is answered 404 "No active contracts found"
\* when there is none.
C14_ListOrNotFound ==
  \A rec \in Done :
    rec.kind = "contracts" =>
      /\ rec.contracts = InProgressOf(rec.profileId)
      /\ IF InProgressOf(rec.profileId) = {}
           THEN rec.status = 404 /\ rec.result = "No active contracts found"
           ELSE rec.status = 200

\* C14 witness: a caller whose only contract is terminated was answered 404.
C14_Witness ==
  \E rec \in Done :
    /\ rec.kind = "contracts" /\ rec.status = 404
    /\ \E c \in DOMAIN Contracts :
         /\ rec.profileId \in {Contracts[c].ClientId, Contracts[c].ContractorId}
         /\ Contracts[c].status = "terminated"

\* C15: a contract request returns the contract if and only if the contract
\* exists and the caller is its payer; every other caller, the contract's
\* performer included, gets 404 and no contract.
C15_OnlyPayerSees ==
  \A rec \in Done :
    rec.kind = "contract" =>
      IF /\ rec.contractId \in DOMAIN Contracts
         /\ Contracts[rec.contractId].ClientId = rec.profileId
        THEN rec.status = 200 /\ rec.contracts = {rec.contractId}
        ELSE rec.status = 404 /\ rec.contracts = {}

\* C15 witness: the performer of an existing contract asked for it and got 404.
C15_Witness ==
  \E rec \in Done :
    /\ rec.kind = "contract" /\ rec.status = 404
    /\ rec.contractId \in DOMAIN Contracts
    /\ Contracts[rec.contractId].ContractorId = rec.profileId

\* The summed price of the jobs paid within [start, end] whose contract has
\* payer p.
PaidBy(p, start, end) ==
  SumPrice({j \in JobIds :
              /\ jobs[j].paid = TRUE
              /\ jobs[j].paymentDate >= start /\ jobs[j].paymentDate <= end
              /\ jobs[j].ContractId \in DOMAIN Contracts
              /\ Contracts[jobs[j].ContractId].ClientId = p})

\* The limit the claim gives a request: the number sent when it is positive,
\* else 2.
ClaimedLimit(limit) ==
  IF limit.kind = "number" /\ limit.value > 0 THEN limit.value ELSE 2

\* C16: a best-clients request with both dates succeeds, is run with the
\* limit sent when that is a positive number and with 2 otherwise, and
\* returns at most that many payer groups in descending order of their sum.
C16_BestPayersLimit ==
  \A rec \in Done :
    (rec.kind = "clients" /\ rec.start # NoDate /\ rec.end # NoDate) =>
      /\ rec.status = 200
      /\ rec.queryLimit = ClaimedLimit(rec.limit)
      /\ Len(rec.clients) <= ClaimedLimit(rec.limit)
      /\ \A i \in 1..Len(rec.clients) :
           /\ rec.clients[i].totalPaid
                = PaidBy(rec.clients[i].ClientId, rec.start, rec.end)
           /\ \A k \in (i + 1)..Len(rec.clients) :
                rec.clients[i].totalPaid >= rec.clients[k].totalPaid

\* The summed price of the jobs paid within [start, end] whose performer has
\* profession g.
EarnedBy(g, start, end) ==
  SumPrice({j \in JobIds :
              /\ jobs[j].paid = TRUE
              /\ jobs[j].paymentDate >= start /\ jobs[j].paymentDate <= end
              /\ jobs[j].ContractId \in DOMAIN Contracts
              /\ Contracts[jobs[j].ContractId].ContractorId \in ProfileIds
              /\ profiles[Contracts[jobs[j].ContractId].ContractorId].profession = g})

Professions == {profiles[p].profession : p \in ProfileIds}

\* C17: a best-profession request without start or end is answered 400; with
\* no job paid within [start, end] it is answered 404; otherwise it returns
\* one profession with the sum of the prices of the jobs paid within
\* [start, end] by performers of that profession, and no profession has a
\* larger sum.
C17_BestProfession ==
  \A rec \in Done :
    rec.kind = "profession" =>
      IF rec.start = NoDate \/ rec.end = NoDate
        THEN rec.status = 400 /\ rec.professions = <<>>
      ELSE IF \A j \in JobIds :
                ~(/\ jobs[j].paid
                  /\ rec.start <= jobs[j].paymentDate
                  /\ jobs[j].paymentDate <= rec.end)
        THEN rec.status = 404 /\ rec.professions = <<>>
      ELSE /\ rec.status = 200
           /\ Len(rec.professions) = 1
           /\ rec.professions[1].totalEarnings
                = EarnedBy(rec.professions[1].profession, rec.start, rec.end)
           /\ rec.professions[1].totalEarnings > 0
           /\ \A g \in Professions :
                EarnedBy(g, rec.start, rec.end) <= rec.professions[1].totalEarnings

\* C17 witness: two professions earned within the window, a third job was
\* paid outside it, and the one with the larger sum was returned.
C17_Witness ==
  \E rec \in Done :
    /\ rec.kind = "profession" /\ rec.status = 200
    /\ \E g \in Professions :
         /\ g # rec.professions[1].profession
         /\ EarnedBy(g, rec.start, rec.end) > 0
         /\ EarnedBy(g, rec.start, rec.end) < rec.professions[1].totalEarnings
    /\ \E j \in JobIds : jobs[j].paid /\ jobs[j].paymentDate < rec.start

\* ---------------------------------------- properties of identity and totals
\* The payer of the contract of the job a pay request is for.
ContractPayer(rec) == Contracts[rec.job.ContractId].ClientId

\* C18: a pay request by a payer other than the payer of the job's contract
\* is not refused for that: once its client row, its funds and the contractor
\* are found in order it goes on to the transaction, and the commit writes
\* the caller's row with the balance it read less the price, leaves the row
\* of the contract's payer as it was, writes the contractor's row with the
\* balance read plus the price, and marks the job paid.
C18_NoIdentityCheck ==
  [][\A old \in BagToSet(reqs), new \in BagToSet(reqs') :
       (/\ Steps(old, new) /\ old.kind = "pay" /\ new.status # 500
        /\ old.contract.found /\ old.clientId # ContractPayer(old)) =>
          /\ (/\ old.pc = "findContractor"
              /\ old.client.found /\ old.client.balance >= old.job.price
              /\ FindProfile(old.contract.ContractorId, "contractor").found) =>
               new.pc = "updateClient"
          /\ old.pc = "commit" =>
               /\ new.pc = "done" /\ new.status = 200
               /\ old.client.id = old.clientId
               /\ profiles'[old.clientId].balance
                    = old.client.balance - old.job.price
               /\ profiles'[ContractPayer(old)] = profiles[ContractPayer(old)]
               /\ profiles'[old.contract.ContractorId].balance
                    = old.contractor.balance + old.job.price
               /\ jobs'[old.jobId].paid]_vars

\* C18 witness: a payer settled a job of another payer's contract; its own
\* balance fell by the price, the contract's payer kept its balance, the
\* contractor was credited.
C18_Witness ==
  \E rec \in Done :
    /\ PaySucceeded(rec)
    /\ rec.clientId # ContractPayer(rec)
    /\ jobs[rec.jobId].paid
    /\ profiles[rec.clientId].balance
         = InitProfiles[rec.clientId].balance - rec.job.price
    /\ profiles[ContractPayer(rec)] = InitProfiles[ContractPayer(rec)]
    /\ profiles[rec.contract.ContractorId].balance
         = InitProfiles[rec.contract.ContractorId].balance + rec.job.price

\* The jobs for which a pay request of payer p was answered with success.
SettledBy(p) ==
  {j \in JobIds : \E rec \in Done : PaySucceeded(rec) /\ rec.clientId = p /\ rec.jobId = j}

\* C19: for every payer, the summed price of the jobs it has settled with
\* success is at most its initial balance plus its successful deposits.
C19_NoOverspending ==
  \A p \in ProfileIds :
    SumPrice(SettledBy(p)) <= InitProfiles[p].balance + DepositedBy(p)

\* C20: the step that answers a deposit with success changes no job, so the
\* payer's limit is the same after it; and when Job.sum resolves for a
\* deposit of a payer with successful deposits behind it, an amount within
\* the limit goes on to the update however much that payer has deposited.
C20_CapPerCall ==
  [][\A old \in BagToSet(reqs), new \in BagToSet(reqs') :
       (Steps(old, new) /\ old.kind = "deposit" /\ new.status # 500) =>
          /\ old.pc = "updateBalance" =>
               /\ new.status = 200
               /\ jobs' = jobs
               /\ \A p \in ProfileIds :
                    SumPrice(CapJobs(p))' = SumPrice(CapJobs(p))
          /\ (/\ old.pc = "sumJobs"
              /\ DepositedBy(old.clientId) > 0
              /\ 4 * old.amount <= SumPrice(CapJobs(old.clientId))) =>
               new.pc = "updateBalance"]_vars

\* C20 witness: with no job settled, the deposits of one payer, each within
\* the limit, all succeeded and add up to more than 25% of its total.
C20_Witness ==
  /\ jobs = InitJobs
  /\ \E p \in ProfileIds :
       /\ 4 * DepositedBy(p) > SumPrice(CapJobs(p))
       /\ \A rec \in BagToSet(reqs) :
            (rec.kind = "deposit" /\ rec.clientId = p) =>
               /\ rec.pc = "done" /\ rec.status = 200
               /\ 4 * rec.amount <= SumPrice(CapJobs(p))

====
